---- MODULE Spec2Model ----
(***************************************************************************)
(* Model of app.py: the capacity tracker's poll / store / serve loop.      *)
(*                                                                         *)
(*   - the SQLite table `capacity` is the set `store` of committed rows;   *)
(*     a connection's open transaction is `pending[t]`, invisible to the   *)
(*     other connections until COMMIT and dropped by ROLLBACK;             *)
(*   - fetch_and_store, start_scheduler and _ensure_scheduler_started are  *)
(*     stepped through by the thread that runs them (pc[t]);               *)
(*   - timestamps are TEXT: datetime.isoformat() output, compared by       *)
(*     SQLite bytewise.  Texts are sequences of character codes.           *)
(***************************************************************************)
EXTENDS Integers, Sequences, FiniteSets, TLC

(***************************************************************************)
(* Bounds of the model.                                                    *)
(***************************************************************************)
NReq == 2          \* HTTP request threads
MaxBatch == 2      \* entries in one remote response's data array
MaxTicks == 1      \* timer-driven ticks
MaxAdvance == 1    \* steps of the wall clock
QSpan == 3         \* span of the timestamps of a stored history that is queried
MaxRows == 3       \* rows of a stored history that is queried
NIds == 2          \* distinct location ids the remote source may report
UsPerSec == 2      \* clock resolution: sub-second units per second
SecPerHour == 1    \* seconds per "hour" of lookback (time scale)

(***************************************************************************)
(* Values.                                                                 *)
(***************************************************************************)
\* Field values of a remote entry that are not usable: a JSON null, and a key
\* that is absent.  Usable values are positive integers.
NULL == 0 - 1
MISSING == 0 - 2

\* Threads: the main thread, APScheduler's job thread, the request threads.
NoThread == << "none", 0 >>
MainThread == << "main", 0 >>
TimerThread == << "timer", 0 >>
Requests == { << "request", i >> : i \in 1..NReq }
Threads == {MainThread, TimerThread} \cup Requests
Ids == 1..NIds
\* Location names; the integer order stands for the string order of the titles.
Names == {1}
Caps == {10, 12}

\* Character codes of the characters isoformat() emits after the seconds.
PLUS == 43
DOT == 46
ZERO == 48

DefaultHours == 24

HourTicks == SecPerHour * UsPerSec
\* datetime.min: the earliest instant a datetime can hold.
MinTime == 0
\* The wall clock at process start, more than DefaultHours after datetime.min.
StartTime == DefaultHours * HourTicks + HourTicks
Times == StartTime..(StartTime + MaxAdvance)

(***************************************************************************)
(* datetime.isoformat(): the seconds zero-padded to a fixed width, then    *)
(* the fraction ONLY when it is not zero, then the UTC offset.             *)
(***************************************************************************)
Digit(d) == ZERO + d

isoformat(t) ==
    LET sec == t \div UsPerSec
        us  == t % UsPerSec
    IN  << Digit(sec \div 100), Digit((sec \div 10) % 10), Digit(sec % 10) >>
        \o (IF us = 0 THEN << >> ELSE << DOT, Digit(us) >>)
        \o << PLUS >>

Min(a, b) == IF a < b THEN a ELSE b

\* SQLite's BINARY collation on TEXT: memcmp on the common prefix, then length.
TextLess(a, b) ==
    \E i \in 1..(Min(Len(a), Len(b)) + 1) :
        /\ \A j \in 1..(i - 1) : a[j] = b[j]
        /\ \/ i > Len(a) /\ i <= Len(b)
           \/ i <= Len(a) /\ i <= Len(b) /\ a[i] < b[i]

TextGeq(a, b) == ~TextLess(a, b)

(***************************************************************************)
(* Rows of the table capacity(timestamp, location_id, location_name,       *)
(* capacity) and the ORDER BY timestamp, location_id of the query.         *)
(***************************************************************************)
Row(ts, e) ==
    [timestamp |-> ts, location_id |-> e.id,
     location_name |-> e.title, capacity |-> e.capacity]

\* Mutant: ORDER BY location_id, timestamp.
RowBefore_IdFirst(r1, r2) ==
    \/ r1.location_id < r2.location_id
    \/ r1.location_id = r2.location_id /\ TextLess(r1.timestamp, r2.timestamp)

RowBefore(r1, r2) ==
    \/ TextLess(r1.timestamp, r2.timestamp)
    \/ r1.timestamp = r2.timestamp /\ r1.location_id < r2.location_id

RECURSIVE OrderBy(_)
OrderBy(S) ==
    IF S = {} THEN << >>
    ELSE LET first == CHOOSE r \in S : \A q \in S : ~RowBefore(q, r)
         IN  << first >> \o OrderBy(S \ {first})

(***************************************************************************)
(* get_data, lines 102-131: the pure parts.                                *)
(***************************************************************************)
\* The `hours` query parameter as the client sent it.
AbsentParam == [kind |-> "absent", val |-> 0]
GarbageParam == [kind |-> "text", val |-> 0]
IntParam(n) == [kind |-> "int", val |-> n]
\* A lookback that reaches back before datetime.min.
HugeHours == DefaultHours + MaxAdvance + QSpan + 2
Params == {AbsentParam, GarbageParam, IntParam(0), IntParam(HugeHours)}
\* The parameters tried on a stored history: negative, zero, within the
\* history's span, beyond it, the default, and beyond datetime.min.
QParams == Params \cup { IntParam(n) : n \in {0 - 1, 1, 2} }

\* request.args.get("hours", "24"), then int() with the ValueError fallback.
ParseHours(p) ==
    CASE p.kind = "absent" -> DefaultHours
      [] p.kind = "text"   -> DefaultHours
      [] OTHER             -> p.val

\* datetime.now(utc) - timedelta(hours=hours): raises OverflowError when the
\* result is not a representable datetime.
SinceOverflows(clock, hours) == hours > 0 /\ clock - hours * HourTicks < MinTime

\* The WHERE clause: a TEXT comparison against the bound's isoformat().
WhereClause(r, clock, hours) ==
    hours > 0 => TextGeq(r.timestamp, isoformat(clock - hours * HourTicks))

\* cursor.fetchall() of the SELECT over the rows the connection can see.
QueryRows(visible, clock, hours) ==
    OrderBy({ r \in visible : WhereClause(r, clock, hours) })

\* The dict `data` is a sequence of its items in insertion order.
HasKey(data, name) == \E i \in DOMAIN data : data[i].name = name

NewSeries(name) == [name |-> name, timestamps |-> << >>, capacities |-> << >>]

\* Mutant: the capacity is put at the front of its list.
AppendSample_CapFirst(series, r) ==
    [series EXCEPT !.timestamps = Append(@, r.timestamp),
                   !.capacities = << r.capacity >> \o @]

AppendSample(series, r) ==
    [series EXCEPT !.timestamps = Append(@, r.timestamp),
                   !.capacities = Append(@, r.capacity)]

\* Mutant: the `if` of line 126 is missing; a name's series is created anew
\* for every row.
GroupRow_Overwrites(data, r) ==
    LET d0 == [i \in DOMAIN data |->
                  IF data[i].name = r.location_name
                  THEN NewSeries(r.location_name) ELSE data[i]]
        d1 == IF HasKey(data, r.location_name) THEN d0
              ELSE Append(data, NewSeries(r.location_name))
    IN  [i \in DOMAIN d1 |->
            IF d1[i].name = r.location_name THEN AppendSample(d1[i], r) ELSE d1[i]]

\* One iteration of the loop at lines 125-129.
GroupRow(data, r) ==
    LET d1 == IF HasKey(data, r.location_name) THEN data
              ELSE Append(data, NewSeries(r.location_name))
    IN  [i \in DOMAIN d1 |->
            IF d1[i].name = r.location_name THEN AppendSample(d1[i], r) ELSE d1[i]]

RECURSIVE GroupRows(_, _)
GroupRows(rows, data) ==
    IF rows = << >> THEN data
    ELSE GroupRows(Tail(rows), GroupRow(data, Head(rows)))

\* flask.jsonify: the default JSON provider serialises with sort_keys=True, so
\* the object's members leave in ascending key order, not insertion order.
RECURSIVE SortKeys(_)
SortKeys(data) ==
    IF data = << >> THEN << >>
    ELSE LET i == CHOOSE k \in DOMAIN data :
                      \A j \in DOMAIN data : data[k].name <= data[j].name
             rest == [j \in 1..(Len(data) - 1) |-> IF j < i THEN data[j] ELSE data[j + 1]]
         IN  << data[i] >> \o SortKeys(rest)

jsonify(data) == SortKeys(data)

(***************************************************************************)
(* State.                                                                  *)
(***************************************************************************)
VARIABLES
    mode,               \* "eager": run as __main__; "server": imported by a WSGI server
    pc,                 \* pc[t]: where thread t is in the code
    now,                \* the wall clock
    shut,               \* the process is exiting (atexit handlers have run)
    scheduler_started,  \* the module global, line 21
    scheduler_lock,     \* the thread holding scheduler_lock, line 22
    running,            \* scheduler.running
    jobs,               \* interval jobs added to the scheduler
    tableExists,        \* the table capacity exists in the database file
    store,              \* the committed rows of the table
    pending,            \* pending[t]: rows inserted in t's open transaction
    dbLock,             \* the thread whose connection holds SQLite's write lock
    stamp,              \* stamp[t]: `timestamp` of t's fetch_and_store, line 51
    fsResult,           \* fsResult[t]: how t's last fetch_and_store ended
    resp,               \* resp[r]: the response of request r, until it is sent
    startCalls,         \* history: calls of start_scheduler
    initFetches,        \* history: calls of fetch_and_store made by start_scheduler
    ticks,              \* history: timer-driven calls of fetch_and_store
    batches             \* history: the batches committed, one set of rows per tick

vars == << mode, pc, now, shut, scheduler_started, scheduler_lock, running, jobs,
           tableExists, store, pending, dbLock, stamp, fsResult, resp,
           startCalls, initFetches, ticks, batches >>

\* A response: the HTTP status, the view that made it, the JSON body, and what
\* the view worked from: the parsed `hours`, the clock, the outcome of the
\* database read ("none" when no read was made), the rows fetched and the
\* dict `data` built from them.
NoResp ==
    [status |-> 0, view |-> "none", hours |-> 0, at |-> 0, read |-> "none",
     rows |-> << >>, data |-> << >>, body |-> << >>]
NoStamp == << >>

Init ==
    /\ mode \in {"eager", "server"}
    /\ pc = [t \in Threads |->
                IF t = MainThread THEN (IF mode = "eager" THEN "main" ELSE "serving")
                ELSE IF t = TimerThread THEN "t_idle"
                ELSE "new"]
    /\ now = StartTime
    /\ shut = FALSE
    /\ scheduler_started = FALSE
    /\ scheduler_lock = NoThread
    /\ running = FALSE
    /\ jobs = 0
    /\ tableExists = FALSE
    /\ store = {}
    /\ pending = [t \in Threads |-> {}]
    /\ dbLock = NoThread
    /\ stamp = [t \in Threads |-> NoStamp]
    /\ fsResult = [t \in Threads |-> "none"]
    /\ resp = [r \in Requests |-> NoResp]
    /\ startCalls = 0
    /\ initFetches = 0
    /\ ticks = 0
    /\ batches = {}

(***************************************************************************)
(* Exceptions leaving start_scheduler in thread t.  In a request thread    *)
(* the `with scheduler_lock` block releases the lock and Flask answers     *)
(* 500; in the main thread the process dies before serving.                *)
(***************************************************************************)
\* Flask's answer to an exception that leaves a hook or a view.
ServerError(view, hours, clock, read) ==
    [status |-> 500, view |-> view, hours |-> hours, at |-> clock, read |-> read,
     rows |-> << >>, data |-> << >>, body |-> << >>]

\* Mutant: the lock is taken with acquire() and released only on the normal
\* path; an exception leaves it held.
Propagate_KeepsLock(t) ==
    /\ pc' = [pc EXCEPT ![t] = IF t \in Requests THEN "respond"
                                ELSE IF t = TimerThread THEN "t_idle"
                                ELSE "crashed"]
    /\ scheduler_lock' = scheduler_lock
    /\ resp' = IF t \in Requests
               THEN [resp EXCEPT ![t] = ServerError("hook", 0, now, "none")]
               ELSE resp

Propagate(t) ==
    /\ pc' = [pc EXCEPT ![t] = IF t \in Requests THEN "respond"
                                ELSE IF t = TimerThread THEN "t_idle"
                                ELSE "crashed"]
    /\ scheduler_lock' = IF scheduler_lock = t THEN NoThread ELSE scheduler_lock
    /\ resp' = IF t \in Requests
               THEN [resp EXCEPT ![t] = ServerError("hook", 0, now, "none")]
               ELSE resp

(***************************************************************************)
(* fetch_and_store, lines 43-61.                                           *)
(***************************************************************************)
\* What the remote request yields: an exception (network error, timeout,
\* non-2xx status, malformed JSON), a status other than 1 (or none), status 1
\* without a data array, or status 1 with a data array.
RemoteOutcomes == {"error", "skip", "nodata", "data"}

\* The JSON value under "status", as data.get("status") returns it: a number,
\* true/false (as 1/0), or None for a null or an absent key.
JInt(n) == << "int", n >>
JBool(b) == << "bool", b >>
JNone == << "none", 0 >>
RemoteStatuses == {JInt(1), JInt(0), JInt(2), JBool(1), JBool(0), JNone}

\* Mutant: `if data.get("status"):` -- any truthy status counts as success.
StatusIsOne_Truthy(v) == v[1] \in {"int", "bool"} /\ v[2] # 0

\* data.get("status") == 1, line 50.  Python's == holds for 1 and, a bool
\* being an int, for True; None equals no number.
StatusIsOne(v) == v[1] \in {"int", "bool"} /\ v[2] = 1

\* What requests.get / raise_for_status / json() hand to line 50: an
\* exception, or a document with its status and with or without "data".
FailedRequest == [raises |-> TRUE, status |-> JNone, hasData |-> FALSE]
Documents == [raises : {FALSE}, status : RemoteStatuses, hasData : BOOLEAN]
RemoteResponses == {FailedRequest} \cup Documents

Outcome(d) ==
    IF d.raises THEN "error"
    ELSE IF ~StatusIsOne(d.status) THEN "skip"
    ELSE IF d.hasData THEN "data"
    ELSE "nodata"

ValidEntries == [id : Ids, title : Names, capacity : Caps]
BaseEntry == [id |-> 1, title |-> 1, capacity |-> 10]
BadEntries ==
    { [BaseEntry EXCEPT ![f] = v] : f \in {"id", "title", "capacity"},
                                     v \in {NULL, MISSING} }
EntryPool == ValidEntries \cup BadEntries

\* Where fetch_and_store returns to: the job thread idles until the next
\* trigger, start_scheduler goes on to line 68.
Continue(t) == IF t = TimerThread THEN "t_idle" ELSE "ss_arm"

\* location["id"], location["title"], location["capacity"]: KeyError.
MissingField(e) == MISSING \in {e.id, e.title, e.capacity}
\* NOT NULL on every column.
NullField(e) == NULL \in {e.id, e.title, e.capacity}
\* Mutant: a table declared without the PRIMARY KEY.
PKViolation_NoKey(t, e) == FALSE

\* PRIMARY KEY (timestamp, location_id), checked against what the connection sees.
PKViolation(t, e) ==
    \E r \in store \cup pending[t] :
        r.timestamp = stamp[t] /\ r.location_id = e.id
\* Another connection holds the write lock: "database is locked" after the
\* busy timeout.
Busy(t) == dbLock \notin {NoThread, t}

InsertFails(t, e, io) ==
    MissingField(e) \/ ~io \/ Busy(t) \/ NullField(e) \/ PKViolation(t, e)

\* conn.commit() with no open transaction does nothing.
CommitFails(t, io) == pending[t] # {} /\ ~io

\* Mutant: the rows inserted before the failure are kept (a connection in
\* autocommit mode, or a commit in a finally block).
Rollback_KeepsRows(t) ==
    /\ store' = store \cup pending[t]
    /\ pending' = [pending EXCEPT ![t] = {}]
    /\ dbLock' = IF dbLock = t THEN NoThread ELSE dbLock
    /\ UNCHANGED batches

\* The connection context manager's __exit__ on an exception: ROLLBACK.
Rollback(t) ==
    /\ pending' = [pending EXCEPT ![t] = {}]
    /\ dbLock' = IF dbLock = t THEN NoThread ELSE dbLock
    /\ UNCHANGED << store, batches >>

\* Mutant: no try/except around the body; the exception leaves the function.
FsCaught_Raises(t, what) ==
    /\ Rollback(t)
    /\ fsResult' = [fsResult EXCEPT ![t] = "raised"]
    /\ stamp' = [stamp EXCEPT ![t] = NoStamp]
    /\ Propagate(t)

\* except Exception: print(...) -- the exception ends here, lines 60-61.
\* fsResult records what was caught: a failed remote request, a failed write
\* before any row was inserted, or a failed write that rolled rows back.
FsCaught(t, what) ==
    /\ Rollback(t)
    /\ fsResult' = [fsResult EXCEPT ![t] =
                        IF pending[t] # {} THEN "rolled_back" ELSE what]
    /\ stamp' = [stamp EXCEPT ![t] = NoStamp]
    /\ pc' = [pc EXCEPT ![t] = Continue(t)]
    /\ UNCHANGED << scheduler_lock, resp >>

\* Mutant: the table is emptied before a batch is written (a snapshot table).
Commit_Replaces(t) ==
    /\ store' = pending[t]
    /\ batches' = IF pending[t] = {} THEN batches ELSE batches \cup {pending[t]}
    /\ pending' = [pending EXCEPT ![t] = {}]
    /\ dbLock' = IF dbLock = t THEN NoThread ELSE dbLock

\* conn.commit(), line 59.
Commit(t) ==
    /\ store' = store \cup pending[t]
    /\ batches' = IF pending[t] = {} THEN batches ELSE batches \cup {pending[t]}
    /\ pending' = [pending EXCEPT ![t] = {}]
    /\ dbLock' = IF dbLock = t THEN NoThread ELSE dbLock

\* Lines 46-52: the request, the status test, the timestamp, the connection.
FsRequestWith(t, D) ==
    /\ pc[t] = "fs_request"
    /\ \E outcome \in { Outcome(d) : d \in D }, connects \in BOOLEAN :
          IF outcome = "data" /\ connects
          THEN /\ stamp' = [stamp EXCEPT ![t] = isoformat(now)]
               /\ pc' = [pc EXCEPT ![t] = "fs_insert"]
               /\ UNCHANGED << fsResult, store, pending, dbLock, batches,
                               scheduler_lock, resp >>
          ELSE IF outcome = "skip"
          THEN /\ fsResult' = [fsResult EXCEPT ![t] = "skipped"]
               /\ pc' = [pc EXCEPT ![t] = Continue(t)]
               /\ UNCHANGED << stamp, store, pending, dbLock, batches,
                               scheduler_lock, resp >>
          ELSE FsCaught(t, IF outcome = "error" THEN "fetch_failed"
                           ELSE "write_failed")
    /\ UNCHANGED << mode, now, shut, scheduler_started, running, jobs, tableExists,
                    startCalls, initFetches, ticks >>

FsRequest(t) == FsRequestWith(t, RemoteResponses)

\* Lines 53-58: one iteration of the loop over data["data"]: the next entry
\* of the response, one of E, is inserted in the connection's transaction.
FsInsertWith(t, E) ==
    /\ pc[t] = "fs_insert"
    /\ Cardinality(pending[t]) < MaxBatch
    /\ \E e \in E, io \in BOOLEAN :
          IF InsertFails(t, e, io)
          THEN FsCaught(t, "write_failed")
          ELSE /\ pending' = [pending EXCEPT ![t] = @ \cup {Row(stamp[t], e)}]
               /\ dbLock' = t
               /\ UNCHANGED << pc, fsResult, stamp, store, batches,
                               scheduler_lock, resp >>
    /\ UNCHANGED << mode, now, shut, scheduler_started, running, jobs, tableExists,
                    startCalls, initFetches, ticks >>

FsInsert(t) == FsInsertWith(t, EntryPool)

\* The data array is exhausted: line 59 and the normal exit of the with block.
FsCommit(t) ==
    /\ pc[t] = "fs_insert"
    /\ \E io \in BOOLEAN :
          IF CommitFails(t, io)
          THEN FsCaught(t, "write_failed")
          ELSE /\ Commit(t)
               /\ fsResult' = [fsResult EXCEPT ![t] = "ok"]
               /\ stamp' = [stamp EXCEPT ![t] = NoStamp]
               /\ pc' = [pc EXCEPT ![t] = Continue(t)]
               /\ UNCHANGED << scheduler_lock, resp >>
    /\ UNCHANGED << mode, now, shut, scheduler_started, running, jobs, tableExists,
                    startCalls, initFetches, ticks >>

(***************************************************************************)
(* start_scheduler, lines 64-70, run by the main thread (__main__, line    *)
(* 135) or by a request thread (line 81).                                  *)
(***************************************************************************)
\* Mutant: the job is armed and the scheduler started right after init_db,
\* before the initial fetch_and_store.
SsInitDb_ArmsFirst(t) ==
    /\ pc[t] = "ss_init"
    /\ ~shut
    /\ \E io \in BOOLEAN :
          IF io
          THEN /\ tableExists' = TRUE
               /\ pc' = [pc EXCEPT ![t] = "fs_request"]
               /\ fsResult' = [fsResult EXCEPT ![t] = "running"]
               /\ initFetches' = initFetches + 1
               /\ running' = TRUE
               /\ jobs' = IF running THEN jobs ELSE jobs + 1
               /\ UNCHANGED << scheduler_lock, resp >>
          ELSE /\ Propagate(t)
               /\ UNCHANGED << tableExists, fsResult, initFetches, running, jobs >>
    /\ UNCHANGED << mode, now, shut, scheduler_started, store,
                    pending, dbLock, stamp, startCalls, ticks, batches >>

\* init_db, lines 25-40: CREATE TABLE / INDEX IF NOT EXISTS.  It raises when
\* the database file cannot be opened or written.
SsInitDb(t) ==
    /\ pc[t] = "ss_init"
    /\ ~shut
    /\ \E io \in BOOLEAN :
          IF io
          THEN /\ tableExists' = TRUE
               /\ pc' = [pc EXCEPT ![t] = "fs_request"]
               /\ fsResult' = [fsResult EXCEPT ![t] = "running"]
               /\ initFetches' = initFetches + 1
               /\ UNCHANGED << scheduler_lock, resp >>
          ELSE /\ Propagate(t)
               /\ UNCHANGED << tableExists, fsResult, initFetches >>
    /\ UNCHANGED << mode, now, shut, scheduler_started, running, jobs, store,
                    pending, dbLock, stamp, startCalls, ticks, batches >>

\* Lines 68-70: if not scheduler.running: add_job(...); start().
SsArm(t) ==
    /\ pc[t] = "ss_arm"
    /\ ~shut
    /\ IF running
       THEN UNCHANGED << running, jobs >>
       ELSE running' = TRUE /\ jobs' = jobs + 1
    /\ pc' = [pc EXCEPT ![t] = IF t = MainThread THEN "serving" ELSE "set_started"]
    /\ fsResult' = [fsResult EXCEPT ![t] = "none"]
    /\ UNCHANGED << mode, now, shut, scheduler_started, scheduler_lock, tableExists,
                    store, pending, dbLock, stamp, resp, startCalls,
                    initFetches, ticks, batches >>

\* Line 135: the __main__ block calls start_scheduler, then app.run serves.
MainStart ==
    /\ pc[MainThread] = "main"
    /\ ~shut
    /\ pc' = [pc EXCEPT ![MainThread] = "ss_init"]
    /\ startCalls' = startCalls + 1
    /\ UNCHANGED << mode, now, shut, scheduler_started, scheduler_lock, running, jobs,
                    tableExists, store, pending, dbLock, stamp, fsResult, resp,
                    initFetches, ticks, batches >>

(***************************************************************************)
(* A request: the before_request hook, lines 73-82, then the view.         *)
(***************************************************************************)
Arrive(r) ==
    /\ pc[r] = "new"
    /\ pc[MainThread] = "serving"
    /\ ~shut
    /\ pc' = [pc EXCEPT ![r] = "hook"]
    /\ UNCHANGED << mode, now, shut, scheduler_started, scheduler_lock, running, jobs,
                    tableExists, store, pending, dbLock, stamp, fsResult, resp,
                    startCalls, initFetches, ticks, batches >>

\* Mutant: the hook also lets a request through when scheduler.running.
Hook_TrustsRunning(r) ==
    /\ pc[r] = "hook"
    /\ ~shut
    /\ pc' = [pc EXCEPT ![r] = IF scheduler_started \/ running THEN "handler"
                                ELSE "acquire"]
    /\ UNCHANGED << mode, now, shut, scheduler_started, scheduler_lock, running, jobs,
                    tableExists, store, pending, dbLock, stamp, fsResult, resp,
                    startCalls, initFetches, ticks, batches >>

\* Lines 76-77: the unlocked test of the flag.
Hook(r) ==
    /\ pc[r] = "hook"
    /\ ~shut
    /\ pc' = [pc EXCEPT ![r] = IF scheduler_started THEN "handler" ELSE "acquire"]
    /\ UNCHANGED << mode, now, shut, scheduler_started, scheduler_lock, running, jobs,
                    tableExists, store, pending, dbLock, stamp, fsResult, resp,
                    startCalls, initFetches, ticks, batches >>

\* Line 78: with scheduler_lock -- blocks while another thread holds it.
Acquire(r) ==
    /\ pc[r] = "acquire"
    /\ ~shut
    /\ scheduler_lock = NoThread
    /\ scheduler_lock' = r
    /\ pc' = [pc EXCEPT ![r] = "recheck"]
    /\ UNCHANGED << mode, now, shut, scheduler_started, running, jobs, tableExists,
                    store, pending, dbLock, stamp, fsResult, resp, startCalls,
                    initFetches, ticks, batches >>

\* Mutant: the flag is not tested again under the lock.
Recheck_NoTest(r) ==
    /\ pc[r] = "recheck"
    /\ ~shut
    /\ pc' = [pc EXCEPT ![r] = "ss_init"]
    /\ startCalls' = startCalls + 1
    /\ UNCHANGED << mode, now, shut, scheduler_started, scheduler_lock, running, jobs,
                    tableExists, store, pending, dbLock, stamp, fsResult, resp,
                    initFetches, ticks, batches >>

\* Lines 79-81: the test under the lock, then the call of start_scheduler.
Recheck(r) ==
    /\ pc[r] = "recheck"
    /\ ~shut
    /\ IF scheduler_started
       THEN /\ scheduler_lock' = NoThread
            /\ pc' = [pc EXCEPT ![r] = "handler"]
            /\ UNCHANGED startCalls
       ELSE /\ pc' = [pc EXCEPT ![r] = "ss_init"]
            /\ startCalls' = startCalls + 1
            /\ UNCHANGED scheduler_lock
    /\ UNCHANGED << mode, now, shut, scheduler_started, running, jobs, tableExists,
                    store, pending, dbLock, stamp, fsResult, resp, initFetches,
                    ticks, batches >>

\* Line 82 and the end of the with block.
SetStarted(r) ==
    /\ pc[r] = "set_started"
    /\ ~shut
    /\ scheduler_started' = TRUE
    /\ scheduler_lock' = NoThread
    /\ pc' = [pc EXCEPT ![r] = "handler"]
    /\ UNCHANGED << mode, now, shut, running, jobs, tableExists, store, pending,
                    dbLock, stamp, fsResult, resp, startCalls, initFetches,
                    ticks, batches >>

\* index, lines 93-96.
Index(r) ==
    /\ pc[r] = "handler"
    /\ ~shut
    /\ resp' = [resp EXCEPT ![r] =
                   [status |-> 200, view |-> "index", hours |-> 0, at |-> now,
                    read |-> "none", rows |-> << >>, data |-> << >>, body |-> << >>]]
    /\ pc' = [pc EXCEPT ![r] = "respond"]
    /\ UNCHANGED << mode, now, shut, scheduler_started, scheduler_lock, running, jobs,
                    tableExists, store, pending, dbLock, stamp, fsResult,
                    startCalls, initFetches, ticks, batches >>

\* Mutant: a reader that sees the rows of open transactions.
VisibleRows_Dirty == store \cup UNION { pending[t] : t \in Threads }

\* What a fresh connection reads: committed rows only.
VisibleRows == store

\* The query raises when the database cannot be opened or read, or the table
\* is not there.
ReadFails(io) == ~io \/ ~tableExists

\* Mutant: a failed read is answered as an empty success.
GetDataResponse_Swallows(clock, hours, io) ==
    IF SinceOverflows(clock, hours)
    THEN ServerError("data", hours, clock, "none")
    ELSE IF ReadFails(io)
    THEN [status |-> 200, view |-> "data", hours |-> hours, at |-> clock,
          read |-> "failed", rows |-> << >>, data |-> << >>, body |-> << >>]
    ELSE LET rows == QueryRows(VisibleRows, clock, hours)
             data == GroupRows(rows, << >>)
         IN  [status |-> 200, view |-> "data", hours |-> hours, at |-> clock,
              read |-> "ok", rows |-> rows, data |-> data, body |-> jsonify(data)]

\* get_data, lines 99-131.  Nothing in it catches: an exception from the
\* timedelta arithmetic or from sqlite3 leaves the view and Flask answers 500.
GetDataResponse(clock, hours, io) ==
    IF SinceOverflows(clock, hours)
    THEN ServerError("data", hours, clock, "none")
    ELSE IF ReadFails(io)
    THEN ServerError("data", hours, clock, "failed")
    ELSE LET rows == QueryRows(VisibleRows, clock, hours)
             data == GroupRows(rows, << >>)
         IN  [status |-> 200, view |-> "data", hours |-> hours, at |-> clock,
              read |-> "ok", rows |-> rows, data |-> data, body |-> jsonify(data)]

GetDataWith(r, P) ==
    /\ pc[r] = "handler"
    /\ ~shut
    /\ \E p \in P, io \in BOOLEAN :
          resp' = [resp EXCEPT ![r] = GetDataResponse(now, ParseHours(p), io)]
    /\ pc' = [pc EXCEPT ![r] = "respond"]
    /\ UNCHANGED << mode, now, shut, scheduler_started, scheduler_lock, running, jobs,
                    tableExists, store, pending, dbLock, stamp, fsResult,
                    startCalls, initFetches, ticks, batches >>

GetData(r) == GetDataWith(r, Params)

\* The response leaves the process.
Respond(r) ==
    /\ pc[r] = "respond"
    /\ resp' = [resp EXCEPT ![r] = NoResp]
    /\ pc' = [pc EXCEPT ![r] = "done"]
    /\ UNCHANGED << mode, now, shut, scheduler_started, scheduler_lock, running, jobs,
                    tableExists, store, pending, dbLock, stamp, fsResult,
                    startCalls, initFetches, ticks, batches >>

(***************************************************************************)
(* The interval job (line 69), the clock, and process exit (lines 85-90).  *)
(***************************************************************************)
\* The job's trigger fires; APScheduler runs at most one instance of a job.
TimerFire ==
    /\ pc[TimerThread] = "t_idle"
    /\ running
    /\ jobs > 0
    /\ ticks < MaxTicks
    /\ pc' = [pc EXCEPT ![TimerThread] = "fs_request"]
    /\ fsResult' = [fsResult EXCEPT ![TimerThread] = "running"]
    /\ ticks' = ticks + 1
    /\ UNCHANGED << mode, now, shut, scheduler_started, scheduler_lock, running, jobs,
                    tableExists, store, pending, dbLock, stamp, resp,
                    startCalls, initFetches, batches >>

AdvanceClock ==
    /\ now < StartTime + MaxAdvance
    /\ now' = now + 1
    /\ UNCHANGED << mode, pc, shut, scheduler_started, scheduler_lock, running, jobs,
                    tableExists, store, pending, dbLock, stamp, fsResult, resp,
                    startCalls, initFetches, ticks, batches >>

\* Mutant: the handler is not registered with atexit; the scheduler is left
\* running.
ShutdownScheduler_NotRegistered == running

\* _shutdown_scheduler, lines 85-87: if scheduler.running: shutdown(wait=False).
\* The job being run is not waited for.
ShutdownScheduler == IF running THEN FALSE ELSE running

\* The process exits and the atexit handler runs (line 90).  The main thread
\* and the daemon request threads end where they are; a transaction they had
\* open is never committed.  A job that is running may go on.
Exit ==
    /\ ~shut
    /\ shut' = TRUE
    /\ running' = ShutdownScheduler
    /\ pc' = [t \in Threads |-> IF t = TimerThread THEN pc[t] ELSE "exited"]
    /\ pending' = [t \in Threads |-> IF t = TimerThread THEN pending[t] ELSE {}]
    /\ stamp' = [t \in Threads |-> IF t = TimerThread THEN stamp[t] ELSE NoStamp]
    /\ fsResult' = [t \in Threads |-> IF t = TimerThread THEN fsResult[t] ELSE "none"]
    /\ resp' = [r \in Requests |-> NoResp]
    /\ dbLock' = IF dbLock = TimerThread THEN dbLock ELSE NoThread
    /\ scheduler_lock' = NoThread
    /\ UNCHANGED << mode, now, scheduler_started, jobs, tableExists, store,
                    startCalls, initFetches, ticks, batches >>

Next ==
    \/ MainStart
    \/ \E t \in Threads : SsInitDb(t) \/ SsArm(t)
    \/ \E t \in Threads : FsRequest(t) \/ FsInsert(t) \/ FsCommit(t)
    \/ \E r \in Requests : Arrive(r) \/ Hook(r) \/ Acquire(r) \/ Recheck(r)
    \/ \E r \in Requests : SetStarted(r) \/ Index(r) \/ GetData(r) \/ Respond(r)
    \/ TimerFire
    \/ AdvanceClock
    \/ Exit

Spec == Init /\ [][Next]_vars

(***************************************************************************)
(* get_data over a stored history: the database file holds rows of earlier *)
(* polls (of this run or of earlier runs of the process), the scheduler is *)
(* started, and one request queries it.                                    *)
(***************************************************************************)
QNames == {1, 2}
QCaps == {10, 12}
QTimes == StartTime..(StartTime + QSpan)

QRowPool ==
    { [timestamp |-> isoformat(t), location_id |-> i,
       location_name |-> n, capacity |-> c] :
         t \in QTimes, i \in Ids, n \in QNames, c \in QCaps }

KeyUnique(S) ==
    \A r1, r2 \in S :
        (r1.timestamp = r2.timestamp /\ r1.location_id = r2.location_id) => r1 = r2

RECURSIVE QStoresUpTo(_)
QStoresUpTo(k) ==
    IF k = 0 THEN {{}}
    ELSE LET P == QStoresUpTo(k - 1)
         IN  P \cup { S \cup {x} : S \in P, x \in QRowPool }

QStores == { S \in QStoresUpTo(MaxRows) : KeyUnique(S) }

FirstRequest == << "request", 1 >>

QueryInit ==
    /\ mode = "server"
    /\ pc = [t \in Threads |->
                IF t = MainThread THEN "serving"
                ELSE IF t = TimerThread THEN "t_idle"
                ELSE IF t = FirstRequest THEN "handler"
                ELSE "new"]
    /\ store \in QStores
    /\ now \in { t \in QTimes :
                   \A x \in store : \E u \in QTimes : u <= t /\ isoformat(u) = x.timestamp }
    /\ shut = FALSE
    /\ scheduler_started = TRUE
    /\ scheduler_lock = NoThread
    /\ running = TRUE
    /\ jobs = 1
    /\ tableExists = TRUE
    /\ pending = [t \in Threads |-> {}]
    /\ dbLock = NoThread
    /\ stamp = [t \in Threads |-> NoStamp]
    /\ fsResult = [t \in Threads |-> "none"]
    /\ resp = [r \in Requests |-> NoResp]
    /\ startCalls = 1
    /\ initFetches = 1
    /\ ticks = 0
    /\ batches = {}

Query(r) == GetDataWith(r, QParams)

QueryNext == Query(FirstRequest) \/ Respond(FirstRequest)

SpecQuery == QueryInit /\ [][QueryNext]_vars

(***************************************************************************)
(* Helpers of the properties.                                              *)
(***************************************************************************)
Range(f) == { f[i] : i \in DOMAIN f }

FsPcs == {"fs_request", "fs_insert"}

\* The threads with an open transaction that holds rows.
Writing == { t \in Threads : pending[t] # {} }

DataResp(r) == resp[r].view = "data" /\ resp[r].status = 200

(***************************************************************************)
(* C1. Atomic tick visibility: the rows a get_data read returns hold every *)
(* sample of a committed tick or none of them, and no sample of a tick     *)
(* whose transaction is still open.                                        *)
(***************************************************************************)
C1_AtomicTickVisibility ==
    \A r \in Requests :
        DataResp(r) =>
            /\ \A b \in batches :
                  b \subseteq Range(resp[r].rows) \/ b \cap Range(resp[r].rows) = {}
            /\ \A t \in Writing : pending[t] \cap Range(resp[r].rows) = {}

\* A read has answered with rows while a tick has inserted part of its batch.
C1_Witness ==
    \E r \in Requests, t \in Threads :
        /\ DataResp(r)
        /\ resp[r].rows # << >>
        /\ pc[t] = "fs_insert"
        /\ pending[t] # {}

(***************************************************************************)
(* C2. Per-poll atomicity on failure: the step in which a fetch_and_store  *)
(* fails after it began inserting leaves the store as it was, with none of *)
(* the rows the invocation had inserted, however many they were; and while *)
(* the invocation runs none of its rows is in the store.                   *)
(***************************************************************************)
C2_FailedPollStoresNothing ==
    [][ \A t \in Threads :
           /\ (pc[t] = "fs_insert" /\ pc'[t] # "fs_insert" /\ fsResult'[t] # "ok" /\ ~shut')
                 => (store' = store /\ pending[t] \cap store' = {} /\ pending'[t] = {})
           /\ pc[t] = "fs_insert" => pending[t] \cap store = {} ]_vars

\* A poll failed after inserting rows, and the store holds earlier rows.
C2_Witness ==
    \E t \in Threads : fsResult[t] = "rolled_back" /\ store # {}

(***************************************************************************)
(* C5. Uniqueness: no two stored samples have the same                     *)
(* (timestamp, location_id).                                               *)
(***************************************************************************)
C5_UniqueKey ==
    \A r1, r2 \in store :
        (r1.timestamp = r2.timestamp /\ r1.location_id = r2.location_id) => r1 = r2

\* A tick is inserting under a timestamp the store already holds, after an
\* earlier tick was refused.
C5_Witness ==
    \E t, u \in Threads :
        /\ pc[t] = "fs_insert"
        /\ \E r \in store : r.timestamp = stamp[t]
        /\ fsResult[u] \in {"write_failed", "rolled_back"}

(***************************************************************************)
(* C6. Fetch failure isolation: when the remote request fails,             *)
(* fetch_and_store adds no row and returns normally to its caller.         *)
(***************************************************************************)
C6_FetchFailureIsolated ==
    [][ \A t \in Threads :
           (pc[t] = "fs_request" /\ pc'[t] \notin FsPcs /\ ~shut'
               /\ fsResult'[t] # "skipped")
             => /\ store' = store
                /\ pc'[t] = Continue(t)
                /\ fsResult'[t] \in {"fetch_failed", "write_failed"} ]_vars

\* A remote request has failed in the timer thread and in an activation.
C6_Witness ==
    /\ fsResult[TimerThread] = "fetch_failed"
    /\ pc[TimerThread] = "t_idle"
    /\ \E t \in Threads \ {TimerThread} :
          fsResult[t] = "fetch_failed" /\ pc[t] = "ss_arm"

(***************************************************************************)
(* C3. Scheduler single-flight, for a process started in server mode.      *)
(***************************************************************************)
\* Request thread r is inside start_scheduler (or about to set the flag).
InStart(r) == pc[r] \in {"ss_init", "fs_request", "fs_insert", "ss_arm", "set_started"}

PastHook(r) == pc[r] \in {"handler", "respond", "done"}

\* C3 as claimed: once the first requests are through the hook,
\* start_scheduler has been executed exactly once in total, with exactly one
\* initial fetch and exactly one job armed.
C3_ExactlyOneStart ==
    (mode = "server" /\ \A r \in Requests : PastHook(r))
        => (startCalls = 1 /\ initFetches = 1 /\ jobs = 1)

\* C3 as amended: at most one request thread is inside start_scheduler, at
\* most one initial fetch is made and at most one job is armed, and exactly
\* one of each once scheduler_started is set.
C3_SingleFlight ==
    mode = "server" =>
        /\ Cardinality({ r \in Requests : InStart(r) }) <= 1
        /\ initFetches <= 1
        /\ jobs <= 1
        /\ scheduler_started => (initFetches = 1 /\ jobs = 1)

\* One first request is ending its activation while another, which also saw
\* the flag unset, waits for the lock.
C3_Witness ==
    /\ mode = "server"
    /\ \E r1, r2 \in Requests :
          pc[r1] = "set_started" /\ pc[r2] = "acquire" /\ initFetches = 1 /\ jobs = 1

(***************************************************************************)
(* C4. Idempotent activation: while the scheduler is running no activation *)
(* runs fetch_and_store again, and no second job is armed.                 *)
(***************************************************************************)
C4_SecondActivationIsNoOp ==
    /\ \A t \in Threads \ {TimerThread} : running => pc[t] \notin FsPcs
    /\ jobs <= 1

(***************************************************************************)
(* C9. Round trip: a query whose lower bound is absent, or earlier than    *)
(* every timestamp of a committed batch, returns every sample of the batch *)
(* with its timestamp, name and capacity, and returns its rows in          *)
(* ascending order of (instant, location_id).                              *)
(***************************************************************************)
\* The instant a stored timestamp text denotes.
TimeOf(ts) == CHOOSE t \in MinTime..(StartTime + MaxAdvance + QSpan) : isoformat(t) = ts

ChronoBefore(r1, r2) ==
    \/ TimeOf(r1.timestamp) < TimeOf(r2.timestamp)
    \/ TimeOf(r1.timestamp) = TimeOf(r2.timestamp) /\ r1.location_id < r2.location_id

Ascending(rows) == \A i \in 1..(Len(rows) - 1) : ChronoBefore(rows[i], rows[i + 1])

BoundBefore(a, b) ==
    a.hours <= 0 \/ \A x \in b : a.at - a.hours * HourTicks < TimeOf(x.timestamp)

InBody(body, x) ==
    \E k \in DOMAIN body :
        /\ body[k].name = x.location_name
        /\ \E i \in DOMAIN body[k].timestamps :
              /\ body[k].timestamps[i] = x.timestamp
              /\ i \in DOMAIN body[k].capacities
              /\ body[k].capacities[i] = x.capacity

\* C9: every get_data step returns its rows in ascending (instant,
\* location_id) order and, for each committed batch lying after the lower
\* bound, every sample of the batch with its timestamp, name and capacity.
C9_RoundTrip ==
    [][ \A r \in Requests :
           (pc[r] = "handler" /\ resp'[r].view = "data" /\ resp'[r].status = 200)
             => /\ Ascending(resp'[r].rows)
                /\ \A b \in batches :
                      BoundBefore(resp'[r], b)
                        => \A x \in b : /\ x \in Range(resp'[r].rows)
                                        /\ InBody(resp'[r].body, x) ]_vars

\* A query has returned a committed batch of two samples among its rows.
C9_Witness ==
    \E r \in Requests, b \in batches :
        /\ DataResp(r)
        /\ Cardinality(b) = 2
        /\ b \subseteq Range(resp[r].rows)
        /\ Len(resp[r].rows) > 2

(***************************************************************************)
(* C10. A read that failed is answered with a server error, never with a   *)
(* success response.                                                       *)
(***************************************************************************)
C10_ReadFailureIsServerError ==
    \A r \in Requests :
        (resp[r].view = "data" /\ resp[r].read = "failed")
            => (resp[r].status = 500 /\ resp[r].body = << >>)

\* get_data has answered a request whose read failed.
C10_Witness ==
    \E r \in Requests :
        resp[r].view = "data" /\ resp[r].read = "failed" /\ resp[r].status = 500

(***************************************************************************)
(* C7. Lookback filter: for every integer hours, get_data with hours > 0   *)
(* returns exactly the stored samples stamped at or after now - hours, and *)
(* with hours <= 0 every stored sample.                                    *)
(***************************************************************************)
InLookback(x, a) ==
    a.hours > 0 => TimeOf(x.timestamp) >= a.at - a.hours * HourTicks

\* C7 as claimed: every query whose read did not fail answers 200 with
\* exactly the stored samples inside the lookback window.
C7_LookbackFilter ==
    \A r \in Requests :
        (resp[r].view = "data" /\ resp[r].read # "failed")
            => /\ resp[r].status = 200
               /\ Range(resp[r].rows) = { x \in store : InLookback(x, resp[r]) }

(***************************************************************************)
(* C8. Grouping.                                                           *)
(***************************************************************************)
NamesOf(rows) == { rows[i].location_name : i \in DOMAIN rows }

FirstIndex(rows, n) ==
    CHOOSE i \in DOMAIN rows :
        /\ rows[i].location_name = n
        /\ \A j \in 1..(i - 1) : rows[j].location_name # n

\* The keys of mapping m are the distinct names of the rows, each once.
KeysAreNames(m, rows) ==
    /\ { m[k].name : k \in DOMAIN m } = NamesOf(rows)
    /\ \A k1, k2 \in DOMAIN m : m[k1].name = m[k2].name => k1 = k2

FirstSeenOrder(m, rows) ==
    \A k1, k2 \in DOMAIN m :
        k1 < k2 => FirstIndex(rows, m[k1].name) < FirstIndex(rows, m[k2].name)

\* The rank of row j among the rows that carry its name.
Rank(rows, j) ==
    Cardinality({ i \in 1..j : rows[i].location_name = rows[j].location_name })

\* The lists of every key are equally long, and their i-th members are the
\* timestamp and the capacity of the i-th row of that name.
Aligned(m, rows) ==
    /\ \A k \in DOMAIN m :
          /\ Len(m[k].timestamps) = Len(m[k].capacities)
          /\ Len(m[k].timestamps) =
                Cardinality({ i \in DOMAIN rows : rows[i].location_name = m[k].name })
    /\ \A j \in DOMAIN rows : \A k \in DOMAIN m :
          m[k].name = rows[j].location_name
            => /\ Rank(rows, j) \in DOMAIN m[k].timestamps
               /\ Rank(rows, j) \in DOMAIN m[k].capacities
               /\ m[k].timestamps[Rank(rows, j)] = rows[j].timestamp
               /\ m[k].capacities[Rank(rows, j)] = rows[j].capacity

\* C8 as claimed: the mapping get_data returns has the distinct names as its
\* keys, in first-seen order, with index-aligned lists in row order.
C8_ReturnedInFirstSeenOrder ==
    \A r \in Requests :
        DataResp(r) =>
            /\ KeysAreNames(resp[r].body, resp[r].rows)
            /\ FirstSeenOrder(resp[r].body, resp[r].rows)
            /\ Aligned(resp[r].body, resp[r].rows)

\* C8 as amended: the dict get_data builds has the distinct names as its keys
\* in first-seen order; the JSON object it returns has the same keys in
\* ascending key order; in both, the lists of a name are index-aligned and in
\* row order.
C8_Grouping ==
    \A r \in Requests :
        DataResp(r) =>
            /\ KeysAreNames(resp[r].data, resp[r].rows)
            /\ FirstSeenOrder(resp[r].data, resp[r].rows)
            /\ Aligned(resp[r].data, resp[r].rows)
            /\ KeysAreNames(resp[r].body, resp[r].rows)
            /\ \A k1, k2 \in DOMAIN resp[r].body :
                  k1 < k2 => resp[r].body[k1].name < resp[r].body[k2].name
            /\ Aligned(resp[r].body, resp[r].rows)

\* Three rows of two names: the first name has two samples of different
\* capacities at different timestamps, the second name one.
C8_Witness ==
    \E r \in Requests :
        /\ DataResp(r)
        /\ Len(resp[r].rows) = 3
        /\ Len(resp[r].data) = 2
        /\ Len(resp[r].data[1].timestamps) = 2
        /\ resp[r].data[1].timestamps[1] # resp[r].data[1].timestamps[2]
        /\ resp[r].data[1].capacities[1] # resp[r].data[1].capacities[2]
        /\ resp[r].rows[2].location_name = resp[r].data[2].name

(***************************************************************************)
(* C11. Single writer in flight: at most one invocation of fetch_and_store *)
(* is executing, whichever thread runs it.                                 *)
(***************************************************************************)
\* The threads inside fetch_and_store.
InFetch == { t \in Threads : pc[t] \in FsPcs }

C11_SingleWriterInFlight == Cardinality(InFetch) <= 1

(***************************************************************************)
(* The interval schedule on its own: the process was started as __main__,  *)
(* the job is armed, the first tick has just failed on its remote request, *)
(* and the job thread goes on polling until the process exits.             *)
(***************************************************************************)
\* How a fetch_and_store that stored nothing because of an exception ended.
FailedResults == {"fetch_failed", "write_failed", "rolled_back"}

AfterBadTick ==
    /\ mode = "eager"
    /\ pc = [t \in Threads |->
                IF t = MainThread THEN "serving"
                ELSE IF t = TimerThread THEN "t_idle"
                ELSE "new"]
    /\ now = StartTime
    /\ shut = FALSE
    /\ scheduler_started = FALSE
    /\ scheduler_lock = NoThread
    /\ running = TRUE
    /\ jobs = 1
    /\ tableExists = TRUE
    /\ store = {}
    /\ pending = [t \in Threads |-> {}]
    /\ dbLock = NoThread
    /\ stamp = [t \in Threads |-> NoStamp]
    /\ fsResult = [t \in Threads |-> IF t = TimerThread THEN "fetch_failed" ELSE "none"]
    /\ resp = [r \in Requests |-> NoResp]
    /\ startCalls = 1
    /\ initFetches = 1
    /\ ticks = 1
    /\ batches = {}

\* Mutant: trigger="date" -- the job runs once and is never triggered again.
IntervalFire_RunOnce ==
    /\ pc[TimerThread] = "t_idle"
    /\ running
    /\ jobs > 0
    /\ ticks = 0
    /\ pc' = [pc EXCEPT ![TimerThread] = "fs_request"]
    /\ fsResult' = [fsResult EXCEPT ![TimerThread] = "running"]
    /\ ticks' = ticks + 1
    /\ UNCHANGED << mode, now, shut, scheduler_started, scheduler_lock, running, jobs,
                    tableExists, store, pending, dbLock, stamp, resp,
                    startCalls, initFetches, batches >>

\* trigger="interval", line 69: the trigger fires again and again while the
\* scheduler runs.  The history counter `ticks` stops counting at MaxTicks.
IntervalFire ==
    /\ pc[TimerThread] = "t_idle"
    /\ running
    /\ jobs > 0
    /\ pc' = [pc EXCEPT ![TimerThread] = "fs_request"]
    /\ fsResult' = [fsResult EXCEPT ![TimerThread] = "running"]
    /\ ticks' = IF ticks < MaxTicks THEN ticks + 1 ELSE ticks
    /\ UNCHANGED << mode, now, shut, scheduler_started, scheduler_lock, running, jobs,
                    tableExists, store, pending, dbLock, stamp, resp,
                    startCalls, initFetches, batches >>

ScheduleNext ==
    \/ IntervalFire
    \/ FsRequest(TimerThread)
    \/ FsInsert(TimerThread)
    \/ FsCommit(TimerThread)
    \/ AdvanceClock
    \/ Exit

\* The interval trigger fires when due; the remote request ends within its
\* timeout and a transaction is ended by its commit or its rollback.
SpecSchedule ==
    /\ AfterBadTick
    /\ [][ScheduleNext]_vars
    /\ WF_vars(IntervalFire)
    /\ WF_vars(FsRequest(TimerThread))
    /\ WF_vars(FsCommit(TimerThread))

(***************************************************************************)
(* C12. A bad tick never ends the schedule.                                *)
(***************************************************************************)
TickFailed == pc[TimerThread] = "t_idle" /\ fsResult[TimerThread] \in FailedResults

\* C12: the step in which a tick fails leaves the job armed and the job
\* thread idle; unless the process exits, a failed tick is followed by the
\* start of another tick; and a tick that ends well has committed its batch.
C12_BadTickKeepsSchedule ==
    /\ [][ /\ (pc[TimerThread] \in FsPcs /\ fsResult'[TimerThread] \in FailedResults)
                => (pc'[TimerThread] = "t_idle" /\ jobs' = jobs /\ running' = running)
           /\ (pc[TimerThread] = "fs_insert" /\ fsResult'[TimerThread] = "ok")
                => (store' = store \cup pending[TimerThread]
                      /\ pc'[TimerThread] = "t_idle") ]_vars
    /\ (TickFailed /\ ~shut) ~> (pc[TimerThread] = "fs_request" \/ shut)

\* After the failed tick a later tick has committed a batch of two samples,
\* and the job is still armed.
C12_Witness ==
    /\ pc[TimerThread] = "t_idle"
    /\ fsResult[TimerThread] = "ok"
    /\ \E b \in batches : Cardinality(b) = 2
    /\ running
    /\ jobs = 1

(***************************************************************************)
(* C13. Non-success or malformed responses yield zero samples.             *)
(***************************************************************************)
\* Documents whose status is different from 1 or absent (a JSON true is, for
\* the test at line 50, equal to 1), and documents without the data array.
NonSuccessDocuments ==
    { d \in Documents : d.status \in {JInt(0), JInt(2), JBool(0), JNone} }
NoDataDocuments ==
    { d \in Documents : d.status \in {JInt(1), JBool(1)} /\ ~d.hasData }
\* Entries of the data array that lack id, title or capacity.
EntriesMissingAField == { e \in EntryPool : MissingField(e) }

ReadOnlyStep(t) ==
    /\ pc[t] \in {"handler", "respond", "ss_init", "hook", "acquire", "recheck",
                  "set_started", "ss_arm", "main"}
    /\ pc'[t] # pc[t]

\* C14: every step leaves every stored sample in place, unchanged; the store
\* grows only in the commit of a fetch_and_store, by that invocation's rows;
\* and steps of get_data, index, init_db and the process exit leave the
\* stored samples as they were.
C14_AppendOnly ==
    [][ /\ store \subseteq store'
        /\ store' # store
              => \E t \in Threads :
                    /\ pc[t] = "fs_insert"
                    /\ pc'[t] = Continue(t)
                    /\ fsResult'[t] = "ok"
                    /\ store' = store \cup pending[t]
        /\ (\E t \in Threads : ReadOnlyStep(t)) => store' = store
        /\ shut' # shut => store' = store ]_vars

\* init_db has run a second time, on a table that holds the rows of an
\* earlier batch, and they are still there.
C14_Witness ==
    /\ initFetches = 2
    /\ \E r \in Requests : pc[r] = "fs_request"
    /\ \E b \in batches : Cardinality(b) = 2 /\ b \subseteq store

(***************************************************************************)
(* C15. Activation order: init_db, then the initial fetch_and_store, then  *)
(* the interval job.                                                       *)
(***************************************************************************)
\* How a fetch_and_store that has returned ended.
EndedResults == {"ok", "skipped"} \cup FailedResults

\* C15: a thread in the initial fetch, or past it, has completed init_db;
\* the initial fetch begins in the step that ends init_db; the job is armed
\* and the scheduler started only by a thread whose initial fetch has
\* returned; and no tick begins while no job is armed.
C15_ActivationOrder ==
    /\ [](/\ \A t \in Threads \ {TimerThread} :
                pc[t] \in FsPcs \cup {"ss_arm"} => tableExists
          /\ jobs = 0 => (~running /\ ticks = 0 /\ pc[TimerThread] = "t_idle"))
    /\ [][ /\ initFetches' # initFetches
                => \E t \in Threads \ {TimerThread} :
                      pc[t] = "ss_init" /\ pc'[t] = "fs_request" /\ tableExists'
           /\ (jobs' # jobs \/ (running' /\ ~running))
                => \E t \in Threads \ {TimerThread} :
                      /\ pc[t] = "ss_arm"
                      /\ fsResult[t] \in EndedResults
                      /\ pending[t] = {}
           /\ ticks' # ticks => (jobs > 0 /\ running /\ initFetches > 0) ]_vars

\* In server mode the first tick is writing after the activation's initial
\* fetch has stored its batch.
C15_Witness ==
    /\ mode = "server"
    /\ pc[TimerThread] = "fs_insert"
    /\ initFetches = 1
    /\ store # {}
    /\ scheduler_started

(***************************************************************************)
(* C16. Non-blocking shutdown.                                             *)
(***************************************************************************)
\* C16: the process can exit whatever the job thread is doing; the exit step
\* stops a running scheduler and leaves a tick that is in flight where it
\* is, with its transaction; on a scheduler that never started it changes
\* neither the scheduler nor its jobs; and after it no tick starts.
C16_NonBlockingShutdown ==
    /\ [](~shut => ENABLED Exit)
    /\ [][ /\ (~shut /\ shut')
                => /\ ~running'
                   /\ jobs' = jobs
                   /\ pc'[TimerThread] = pc[TimerThread]
                   /\ pending'[TimerThread] = pending[TimerThread]
                   /\ store' = store
                   /\ ticks' = ticks
           /\ shut
                => /\ shut'
                   /\ ~running'
                   /\ ticks' = ticks
                   /\ pc[TimerThread] = "t_idle" => pc'[TimerThread] = "t_idle" ]_vars

\* The scheduler was shut down while a tick was in flight with rows in its
\* open transaction.
C16_Witness ==
    /\ shut
    /\ ~running
    /\ jobs = 1
    /\ pc[TimerThread] = "fs_insert"
    /\ pending[TimerThread] # {}

(***************************************************************************)
(* C17. No request handler runs before activation has completed.           *)
(***************************************************************************)
\* Request r is in the body of a view, or holds the response a view made.
InView(r) == pc[r] = "handler" \/ resp[r].view \in {"index", "data"}

\* C17: while a request is in index or get_data the flag is set, the table
\* exists, an initial fetch has been made and has returned and the job is
\* armed; and while one request is activating it holds scheduler_lock and
\* every other request is before the lock or was refused by the hook.
C17_NoHandlerBeforeActivation ==
    /\ \A r \in Requests :
          InView(r) => /\ scheduler_started
                       /\ tableExists
                       /\ initFetches >= 1
                       /\ jobs >= 1
    /\ scheduler_started => \A r \in Requests : ~InStart(r)
    /\ \A r1, r2 \in Requests :
          (r1 # r2 /\ InStart(r1))
             => /\ scheduler_lock = r1
                /\ pc[r2] \in {"new", "hook", "acquire", "respond", "done"}
                /\ ~InView(r2)

\* A request waits for scheduler_lock while the request that holds it is in
\* the initial fetch, with rows in its open transaction.
C17_Witness ==
    \E r1, r2 \in Requests :
        /\ scheduler_lock = r1
        /\ pc[r1] = "fs_insert"
        /\ pending[r1] # {}
        /\ pc[r2] = "acquire"
        /\ ~scheduler_started

(***************************************************************************)
(* C18. The started flag is monotone and set only on success.              *)
(***************************************************************************)
\* C18: scheduler_started never goes back to False; the step that sets it is
\* taken by the request that holds scheduler_lock, after its start_scheduler
\* returned, and releases the lock; a request whose start_scheduler raised
\* leaves the flag False, releases the lock and is answered 500; and a
\* request that finds the flag False goes for the lock and, the flag still
\* False under it, calls start_scheduler.
C18_FlagSetOnlyOnSuccess ==
    [][ /\ scheduler_started => scheduler_started'
        /\ scheduler_started' # scheduler_started
              => \E r \in Requests :
                    /\ scheduler_lock = r
                    /\ pc[r] = "set_started"
                    /\ pc'[r] = "handler"
                    /\ scheduler_lock' = NoThread
        /\ \A r \in Requests :
              /\ (InStart(r) /\ pc'[r] = "respond")
                    => /\ ~scheduler_started'
                       /\ scheduler_lock = r
                       /\ scheduler_lock' = NoThread
                       /\ resp'[r].status = 500
                       /\ resp'[r].view = "hook"
              /\ (pc[r] = "hook" /\ pc'[r] # "hook" /\ ~shut' /\ ~scheduler_started)
                    => pc'[r] = "acquire"
              /\ (pc[r] = "recheck" /\ pc'[r] # "recheck" /\ ~shut' /\ ~scheduler_started)
                    => (pc'[r] = "ss_init" /\ startCalls' = startCalls + 1) ]_vars

\* A request's start_scheduler raised; with the flag still False the next
\* request has taken the lock and called start_scheduler again.
C18_Witness ==
    /\ ~scheduler_started
    /\ mode = "server"
    /\ startCalls = 2
    /\ \E r1, r2 \in Requests :
          /\ pc[r1] = "respond"
          /\ resp[r1].status = 500
          /\ resp[r1].view = "hook"
          /\ pc[r2] = "ss_init"
          /\ scheduler_lock = r2

(***************************************************************************)
(* C19. Grouping neither drops nor duplicates samples.                     *)
(***************************************************************************)
RECURSIVE SumTimestamps(_)
SumTimestamps(data) ==
    IF data = << >> THEN 0
    ELSE Len(Head(data).timestamps) + SumTimestamps(Tail(data))

RECURSIVE SumCapacities(_)
SumCapacities(data) ==
    IF data = << >> THEN 0
    ELSE Len(Head(data).capacities) + SumCapacities(Tail(data))

\* C19: over all the series get_data returns, the timestamps, and the
\* capacities, are as many as the rows the query returned.
C19_GroupingKeepsEverySample ==
    \A r \in Requests :
        DataResp(r) =>
            /\ SumTimestamps(resp[r].body) = Len(resp[r].rows)
            /\ SumCapacities(resp[r].body) = Len(resp[r].rows)
            /\ SumTimestamps(resp[r].data) = Len(resp[r].rows)

\* Three rows were returned: two location_ids under one name at the same
\* timestamp, merged into one series that holds that timestamp twice, and one
\* of these location_ids under a second name, split over two series.
C19_Witness ==
    \E r \in Requests :
        /\ DataResp(r)
        /\ Len(resp[r].rows) = 3
        /\ Len(resp[r].body) = 2
        /\ \E k \in DOMAIN resp[r].body :
              /\ Len(resp[r].body[k].timestamps) = 2
              /\ resp[r].body[k].timestamps[1] = resp[r].body[k].timestamps[2]
        /\ \E i, j \in DOMAIN resp[r].rows :
              /\ resp[r].rows[i].location_id = resp[r].rows[j].location_id
              /\ resp[r].rows[i].location_name # resp[r].rows[j].location_name

====
